---- MODULE Spec2Model ----
(***************************************************************************)
(* Model of src/main.py (Change-Click): the ChangeClickController state    *)
(* machine driven by the mouse listener thread, the polling threads that   *)
(* run _watch_for_changes, NaturalKeySender.tap and the pure function      *)
(* ChangeDetector.has_changed.                                             *)
(*                                                                         *)
(* Granularity.  A `with self._state_lock:` block of _watch_for_changes    *)
(* and of _stop_monitoring holds no blocking call, so it is one step       *)
(* guarded by the lock being free.  The block of _begin_monitoring calls   *)
(* sample() and Thread.start() inside the lock and is modelled statement   *)
(* by statement with the lock held.  Everything outside a lock is one step *)
(* per statement.                                                          *)
(***************************************************************************)
EXTENDS Integers, Sequences, FiniteSets

\* ------------------------------------------------------------------ bounds

\* Polling threads that may ever be started (one per successful press).
MaxThreads == 2

\* Longest colour sequence handed to has_changed in the detector harness.
MaxLen == 2

\* The observers stop counting key presses of a session here.
TapCap == 2

\* ------------------------------------------------- constants of the program

\* ChangeDetector.__init__ defaults.
Tolerance == 18
MinimumChangedPixels == 1

\* self._baseline = None.  No sample is empty: sample() returns one colour per
\* sample point and the cluster is never empty (`cluster_offsets or default`).
None == << >>

\* mouse.Button.x2 and some other button.
X2 == "x2"
Buttons == {X2, "left"}

\* Colours on screen.  P10/P200 are the colours of the spec's end-to-end
\* scenario (red channel jumps by 190); P20 differs from P10 by 10.
P10 == <<10, 10, 10>>
P20 == <<20, 10, 10>>
P200 == <<200, 10, 10>>

\* What sample() can return for a two-point cluster: the screen is outside the
\* program, so every sample() draws any of these.
SampleA == <<P10, P10>>
SampleB == <<P10, P200>>
SampleC == <<P10, P20>>
Screens == {SampleA, SampleB, SampleC}

Threads == 1..MaxThreads

\* The event the listener is not handling any.
NoEvent == [button |-> "none", pressed |-> FALSE]

VARIABLES
    \* ChangeClickController fields
    monitoring,      \* self._monitoring
    baseline,        \* self._baseline (None or a sample)
    monitor_thread,  \* self._monitor_thread: 0 is None, else the thread's id
    state_lock,      \* self._state_lock: "free" or its holder
    \* NaturalKeySender
    sender_lock,     \* self._lock: 0 is free, else the polling thread in tap()
    key_down,        \* the key is pressed (controller.press without release yet)
    \* the listener thread
    lpc,             \* its position
    ev,              \* the arguments of the _handle_click call in progress
    \* the polling threads
    pc,              \* position of each thread in _watch_for_changes
    loc_baseline,    \* the local `baseline` of each thread
    current,         \* the local `current` of each thread
    \* observers (history of the run; no action reads them)
    cmp_after,       \* per thread: -1, or comparisons made since a release
    expect,          \* the sample of the latest detected change, or None
    e2e,             \* the session is the sustained-change scenario so far
    quiet,           \* no sample of the session differed from the baseline
    session_taps,    \* key presses emitted since the session began
    session_rebased, \* a rebase wrote the baseline since the session began
    saw_active,      \* per thread: its latest state check found Active
    session_base,    \* the baseline captured by the press of the session
    session_vals,    \* the samples polling threads took since that capture
    \* the has_changed harness
    det_self, det_base, det_cur, det_out

prog == <<monitoring, baseline, monitor_thread, state_lock, sender_lock,
          key_down, lpc, ev, pc, loc_baseline, current>>
more == <<saw_active, session_base, session_vals>>
hist == <<cmp_after, expect, e2e, quiet, session_taps, session_rebased, more>>
det == <<det_self, det_base, det_cur, det_out>>
vars == <<prog, hist, det>>

\* ---------------------------------------------------------- ChangeDetector

Abs(x) == IF x < 0 THEN 0 - x ELSE x

Min(a, b) == IF a < b THEN a ELSE b

\* sum(abs(a - b) for a, b in zip(base, cur)): zip stops at the shorter one.
RECURSIVE DeltaFrom(_, _, _)
DeltaFrom(base, cur, i) ==
    IF i > Min(Len(base), Len(cur)) THEN 0
    ELSE Abs(base[i] - cur[i]) + DeltaFrom(base, cur, i + 1)

Delta(base, cur) == DeltaFrom(base, cur, 1)

ChangeDetector(tolerance, minimum_changed_pixels) ==
    [tolerance |-> tolerance, minimum_changed_pixels |-> minimum_changed_pixels]

\* `if delta > self._tolerance:`
ExceedsOrReaches(delta, tolerance) == delta >= tolerance

Exceeds(delta, tolerance) == delta > tolerance

\* `if changes >= self._minimum_changed_pixels:`
PassedMinimum(changes, minimum) == changes > minimum

ReachedMinimum(changes, minimum) == changes >= minimum

\* has_changed without the early return: every pair is evaluated and the
\* count is compared with the minimum at the end.
RECURSIVE ScanAll(_, _, _, _, _)
ScanAll(self, base, cur, i, changes) ==
    IF i > Min(Len(base), Len(cur))
    THEN [result |-> changes > 0 /\ changes >= self.minimum_changed_pixels,
          scanned |-> i - 1]
    ELSE IF Delta(base[i], cur[i]) > self.tolerance
         THEN ScanAll(self, base, cur, i + 1, changes + 1)
         ELSE ScanAll(self, base, cur, i + 1, changes)

\* The for loop of has_changed from pair i with `changes` counted so far:
\* the value returned and the number of pairs whose delta was computed.
RECURSIVE Scan(_, _, _, _, _)
Scan(self, base, cur, i, changes) ==
    IF i > Min(Len(base), Len(cur))
    THEN [result |-> FALSE, scanned |-> i - 1]
    ELSE IF Exceeds(Delta(base[i], cur[i]), self.tolerance)
         THEN IF ReachedMinimum(changes + 1, self.minimum_changed_pixels)
              THEN [result |-> TRUE, scanned |-> i]
              ELSE Scan(self, base, cur, i + 1, changes + 1)
         ELSE Scan(self, base, cur, i + 1, changes)

has_changed(self, base, cur) == Scan(self, base, cur, 1, 0).result

\* self._detector of the controller: ChangeDetector().
Detector == ChangeDetector(Tolerance, MinimumChangedPixels)

\* ------------------------------------------------------------------- locks

LockIgnored(l) == TRUE

LockFree(l) == l = "free"

SenderLockIgnored(l) == TRUE

SenderLockFree(l) == l = 0

\* ------------------------------------------------------------ the listener

\* The listener delivers a click: _handle_click(x, y, button, pressed) is
\* called on the listener thread, one call at a time.
Click(button, pressed) ==
    /\ lpc = "idle"
    /\ (button = X2 /\ pressed) => (monitoring \/ monitor_thread < MaxThreads)
    /\ lpc' = "handle"
    /\ ev' = [button |-> button, pressed |-> pressed]
    /\ UNCHANGED <<monitoring, baseline, monitor_thread, state_lock,
                   sender_lock, key_down, pc, loc_baseline, current>>

\* _handle_click: `if button != mouse.Button.x2: return`.
AnyButton(button) == TRUE

IsTrigger(button) == button = X2

HandleClickOther ==
    /\ lpc = "handle"
    /\ ~IsTrigger(ev.button)
    /\ lpc' = "idle"
    /\ ev' = NoEvent
    /\ UNCHANGED <<monitoring, baseline, monitor_thread, state_lock,
                   sender_lock, key_down, pc, loc_baseline, current>>

\* _begin_monitoring: `if self._monitoring: return`.
NeverAlreadyMonitoring(m) == FALSE

AlreadyMonitoring(m) == m

\* _begin_monitoring up to the check: takes the lock; returns at once (and
\* releases it) when already monitoring, else goes on to sample() inside it.
BeginMonitoring ==
    /\ lpc = "handle"
    /\ IsTrigger(ev.button) /\ ev.pressed
    /\ LockFree(state_lock)
    /\ IF AlreadyMonitoring(monitoring)
       THEN /\ lpc' = "idle"
            /\ ev' = NoEvent
            /\ UNCHANGED state_lock
       ELSE /\ lpc' = "begin_sample"
            /\ state_lock' = "listener"
            /\ UNCHANGED ev
    /\ UNCHANGED <<monitoring, baseline, monitor_thread,
                   sender_lock, key_down, pc, loc_baseline, current>>

\* self._baseline = self._sampler.sample(), the capture succeeding.
BeginSample(s) ==
    /\ lpc = "begin_sample"
    /\ baseline' = s
    /\ lpc' = "begin_flag"
    /\ UNCHANGED <<monitoring, monitor_thread, state_lock, ev,
                   sender_lock, key_down, pc, loc_baseline, current>>

\* BeginSampleFails without the release a `with` block gives on an exception.
BeginSampleFailsHoldingLock ==
    /\ lpc = "begin_sample"
    /\ lpc' = "idle"
    /\ ev' = NoEvent
    /\ UNCHANGED <<monitoring, baseline, monitor_thread, state_lock,
                   sender_lock, key_down, pc, loc_baseline, current>>

\* sample() raises inside _begin_monitoring: the `with` releases the lock and
\* the exception leaves _begin_monitoring and _handle_click.
BeginSampleFails ==
    /\ lpc = "begin_sample"
    /\ state_lock' = "free"
    /\ lpc' = "idle"
    /\ ev' = NoEvent
    /\ UNCHANGED <<monitoring, baseline, monitor_thread,
                   sender_lock, key_down, pc, loc_baseline, current>>

\* self._monitoring = True
BeginSetMonitoring ==
    /\ lpc = "begin_flag"
    /\ monitoring' = TRUE
    /\ lpc' = "begin_spawn"
    /\ UNCHANGED <<baseline, monitor_thread, state_lock, ev,
                   sender_lock, key_down, pc, loc_baseline, current>>

\* self._monitor_thread = Thread(...); self._monitor_thread.start(); the end
\* of the `with` block releases the lock.
BeginStartThread ==
    /\ lpc = "begin_spawn"
    /\ monitor_thread' = monitor_thread + 1
    /\ pc' = [pc EXCEPT ![monitor_thread + 1] = "check"]
    /\ state_lock' = "free"
    /\ lpc' = "idle"
    /\ ev' = NoEvent
    /\ UNCHANGED <<monitoring, baseline,
                   sender_lock, key_down, loc_baseline, current>>

\* _stop_monitoring, one hold of the lock.
StopMonitoring ==
    /\ lpc = "handle"
    /\ IsTrigger(ev.button) /\ ~ev.pressed
    /\ LockFree(state_lock)
    /\ monitoring' = FALSE
    /\ baseline' = None
    /\ lpc' = "idle"
    /\ ev' = NoEvent
    /\ UNCHANGED <<monitor_thread, state_lock,
                   sender_lock, key_down, pc, loc_baseline, current>>

\* ----------------------------------------------------- _watch_for_changes

\* The break condition without its test of the flag.
BreaksOnBaselineOnly(m, b) == b = None

\* `if not self._monitoring or self._baseline is None: break`
MustBreak(m, b) == ~m \/ b = None

\* CheckState with sample() moved inside the `with` block: the lock stays held.
CheckStateKeepsLock(p) ==
    /\ pc[p] = "check"
    /\ LockFree(state_lock)
    /\ IF MustBreak(monitoring, baseline)
       THEN /\ pc' = [pc EXCEPT ![p] = "exited"]
            /\ UNCHANGED <<loc_baseline, state_lock>>
       ELSE /\ pc' = [pc EXCEPT ![p] = "sample"]
            /\ loc_baseline' = [loc_baseline EXCEPT ![p] = baseline]
            /\ state_lock' = "poller"
    /\ UNCHANGED <<monitoring, baseline, monitor_thread,
                   sender_lock, key_down, lpc, ev, current>>

\* The first `with self._state_lock:` block of the loop.
CheckState(p) ==
    /\ pc[p] = "check"
    /\ LockFree(state_lock)
    /\ IF MustBreak(monitoring, baseline)
       THEN /\ pc' = [pc EXCEPT ![p] = "exited"]
            /\ UNCHANGED loc_baseline
       ELSE /\ pc' = [pc EXCEPT ![p] = "sample"]
            /\ loc_baseline' = [loc_baseline EXCEPT ![p] = baseline]
    /\ UNCHANGED <<monitoring, baseline, monitor_thread, state_lock,
                   sender_lock, key_down, lpc, ev, current>>

\* current = self._sampler.sample(), the capture succeeding.
Sample(p, s) ==
    /\ pc[p] = "sample"
    /\ current' = [current EXCEPT ![p] = s]
    /\ pc' = [pc EXCEPT ![p] = "compare"]
    /\ UNCHANGED <<monitoring, baseline, monitor_thread, state_lock,
                   sender_lock, key_down, lpc, ev, loc_baseline>>

\* Where a polling thread is after sample() raised: nothing in
\* _watch_for_changes catches it, so the thread's target ends.
AfterSampleError == "crashed"

SampleFails(p) ==
    /\ pc[p] = "sample"
    /\ pc' = [pc EXCEPT ![p] = AfterSampleError]
    /\ loc_baseline' = [loc_baseline EXCEPT ![p] = None]
    /\ UNCHANGED <<monitoring, baseline, monitor_thread, state_lock,
                   sender_lock, key_down, lpc, ev, current>>

\* `if self._detector.has_changed(baseline, current):`.  The locals are dead
\* once read for the last time in an iteration and are cleared there.
Compare(p) ==
    /\ pc[p] = "compare"
    /\ IF has_changed(Detector, loc_baseline[p], current[p])
       THEN /\ pc' = [pc EXCEPT ![p] = "tap"]
            /\ UNCHANGED current
       ELSE /\ pc' = [pc EXCEPT ![p] = "sleep"]
            /\ current' = [current EXCEPT ![p] = None]
    /\ loc_baseline' = [loc_baseline EXCEPT ![p] = None]
    /\ UNCHANGED <<monitoring, baseline, monitor_thread, state_lock,
                   sender_lock, key_down, lpc, ev>>

\* tap(): `with self._lock:` entered; the pre-press sleep follows.
TapAcquire(p) ==
    /\ pc[p] = "tap"
    /\ SenderLockFree(sender_lock)
    /\ sender_lock' = p
    /\ pc' = [pc EXCEPT ![p] = "tap_pre"]
    /\ UNCHANGED <<monitoring, baseline, monitor_thread, state_lock,
                   key_down, lpc, ev, loc_baseline, current>>

\* self._controller.press(self._key) after the pre-press sleep.
TapPress(p) ==
    /\ pc[p] = "tap_pre"
    /\ key_down' = TRUE
    /\ pc' = [pc EXCEPT ![p] = "tap_hold"]
    /\ UNCHANGED <<monitoring, baseline, monitor_thread, state_lock,
                   sender_lock, lpc, ev, loc_baseline, current>>

\* self._controller.release(self._key) after the hold; the lock is released.
TapRelease(p) ==
    /\ pc[p] = "tap_hold"
    /\ key_down' = FALSE
    /\ sender_lock' = 0
    /\ pc' = [pc EXCEPT ![p] = "rebase"]
    /\ UNCHANGED <<monitoring, baseline, monitor_thread, state_lock,
                   lpc, ev, loc_baseline, current>>

\* `with self._state_lock: self._baseline = current`
Rebase(p) ==
    /\ pc[p] = "rebase"
    /\ LockFree(state_lock)
    /\ baseline' = current[p]
    /\ current' = [current EXCEPT ![p] = None]
    /\ pc' = [pc EXCEPT ![p] = "sleep"]
    /\ UNCHANGED <<monitoring, monitor_thread, state_lock,
                   sender_lock, key_down, lpc, ev, loc_baseline>>

\* time.sleep(self._poll_interval), then the top of the loop.
Sleep(p) ==
    /\ pc[p] = "sleep"
    /\ pc' = [pc EXCEPT ![p] = "check"]
    /\ UNCHANGED <<monitoring, baseline, monitor_thread, state_lock,
                   sender_lock, key_down, lpc, ev, loc_baseline, current>>

\* ------------------------------------------------------------ the program

ProgInit ==
    /\ monitoring = FALSE
    /\ baseline = None
    /\ monitor_thread = 0
    /\ state_lock = "free"
    /\ sender_lock = 0
    /\ key_down = FALSE
    /\ lpc = "idle"
    /\ ev = NoEvent
    /\ pc = [p \in Threads |-> "unborn"]
    /\ loc_baseline = [p \in Threads |-> None]
    /\ current = [p \in Threads |-> None]

HistInit ==
    /\ cmp_after = [p \in Threads |-> -1]
    /\ expect = None
    /\ e2e = FALSE
    /\ quiet = FALSE
    /\ session_taps = 0
    /\ session_rebased = FALSE
    /\ saw_active = [p \in Threads |-> FALSE]
    /\ session_base = None
    /\ session_vals = {}

DetIdle ==
    /\ det_self = Detector
    /\ det_base = None
    /\ det_cur = None
    /\ det_out = [done |-> TRUE, result |-> FALSE, scanned |-> 0]

Init == ProgInit /\ HistInit /\ DetIdle

Next ==
    \/ \E b \in Buttons, pr \in BOOLEAN : Click(b, pr) /\ UNCHANGED <<hist, det>>
    \/ HandleClickOther /\ UNCHANGED <<hist, det>>
    \/ BeginMonitoring /\ UNCHANGED <<hist, det>>
    \/ \E s \in Screens : BeginSample(s) /\ UNCHANGED <<hist, det>>
    \/ BeginSampleFails /\ UNCHANGED <<hist, det>>
    \/ BeginSetMonitoring /\ UNCHANGED <<hist, det>>
    \/ BeginStartThread /\ UNCHANGED <<hist, det>>
    \/ StopMonitoring /\ UNCHANGED <<hist, det>>
    \/ \E p \in Threads : CheckState(p) /\ UNCHANGED <<hist, det>>
    \/ \E p \in Threads, s \in Screens : Sample(p, s) /\ UNCHANGED <<hist, det>>
    \/ \E p \in Threads : SampleFails(p) /\ UNCHANGED <<hist, det>>
    \/ \E p \in Threads : Compare(p) /\ UNCHANGED <<hist, det>>
    \/ \E p \in Threads : TapAcquire(p) /\ UNCHANGED <<hist, det>>
    \/ \E p \in Threads : TapPress(p) /\ UNCHANGED <<hist, det>>
    \/ \E p \in Threads : TapRelease(p) /\ UNCHANGED <<hist, det>>
    \/ \E p \in Threads : Rebase(p) /\ UNCHANGED <<hist, det>>
    \/ \E p \in Threads : Sleep(p) /\ UNCHANGED <<hist, det>>

Spec == Init /\ [][Next]_vars

\* The samples of the fair specification: one colour that differs from the
\* other beyond the tolerance is enough to take both branches of the
\* comparison, and what a thread does next depends on nothing else.
FairScreens == {SampleA, SampleB}

\* One step of polling thread p, whichever statement it is at.
PollerStep(p) ==
    /\ \/ CheckState(p)
       \/ \E s \in FairScreens : Sample(p, s)
       \/ SampleFails(p)
       \/ Compare(p)
       \/ TapAcquire(p)
       \/ TapPress(p)
       \/ TapRelease(p)
       \/ Rebase(p)
       \/ Sleep(p)
    /\ UNCHANGED <<hist, det>>

\* The same program with the scheduling a started thread gets: a daemon
\* thread that can take a step (its sleep is over, the call it is in returns,
\* the lock it waits for stays free) eventually takes it.  Nothing is assumed
\* of the listener: clicks may stop coming.
NextFair ==
    \/ \E b \in Buttons, pr \in BOOLEAN : Click(b, pr) /\ UNCHANGED <<hist, det>>
    \/ HandleClickOther /\ UNCHANGED <<hist, det>>
    \/ BeginMonitoring /\ UNCHANGED <<hist, det>>
    \/ \E s \in FairScreens : BeginSample(s) /\ UNCHANGED <<hist, det>>
    \/ BeginSampleFails /\ UNCHANGED <<hist, det>>
    \/ BeginSetMonitoring /\ UNCHANGED <<hist, det>>
    \/ BeginStartThread /\ UNCHANGED <<hist, det>>
    \/ StopMonitoring /\ UNCHANGED <<hist, det>>
    \/ \E p \in Threads : PollerStep(p)

SpecFair ==
    /\ Init
    /\ [][NextFair]_vars
    /\ \A p \in Threads : WF_vars(PollerStep(p))

\* -------------------------------------------------------------- observers
\* The specifications below run the same program steps as Spec and record,
\* beside each step, the history a claim speaks about.  No action of the
\* program reads an observer.

\* A polling task: a thread running _watch_for_changes that has not exited.
Running(p) == pc[p] \notin {"unborn", "exited", "crashed"}

PollingTasks == {p \in Threads : Running(p)}

\* Stop latency.  cmp_after[p] is -1 until a release is processed while
\* Active with p running; from then on it counts p's has_changed calls (the
\* count stops at 2, one more than the claim allows).
LatencyOnStop ==
    cmp_after' = [p \in Threads |->
        IF monitoring /\ Running(p) /\ cmp_after[p] = -1 THEN 0
        ELSE cmp_after[p]]

LatencyOnCompare(p) ==
    cmp_after' = [cmp_after EXCEPT ![p] =
        IF @ = -1 THEN -1 ELSE Min(@ + 1, 2)]

LatencyRest == UNCHANGED <<cmp_after, expect, e2e, quiet, session_taps,
                           session_rebased, more, det>>

LatencyOther == UNCHANGED <<expect, e2e, quiet, session_taps,
                            session_rebased, more, det>>

NextLatency ==
    \/ \E b \in Buttons, pr \in BOOLEAN : Click(b, pr) /\ LatencyRest
    \/ HandleClickOther /\ LatencyRest
    \/ BeginMonitoring /\ LatencyRest
    \/ \E s \in Screens : BeginSample(s) /\ LatencyRest
    \/ BeginSampleFails /\ LatencyRest
    \/ BeginSetMonitoring /\ LatencyRest
    \/ BeginStartThread /\ LatencyRest
    \/ StopMonitoring /\ LatencyOnStop /\ LatencyOther
    \/ \E p \in Threads : CheckState(p) /\ LatencyRest
    \/ \E p \in Threads, s \in Screens : Sample(p, s) /\ LatencyRest
    \/ \E p \in Threads : SampleFails(p) /\ LatencyRest
    \/ \E p \in Threads : Compare(p) /\ LatencyOnCompare(p) /\ LatencyOther
    \/ \E p \in Threads : TapAcquire(p) /\ LatencyRest
    \/ \E p \in Threads : TapPress(p) /\ LatencyRest
    \/ \E p \in Threads : TapRelease(p) /\ LatencyRest
    \/ \E p \in Threads : Rebase(p) /\ LatencyRest
    \/ \E p \in Threads : Sleep(p) /\ LatencyRest

SpecLatency == Init /\ [][NextLatency]_vars

\* Rebase-on-change.  expect is the current sample of the latest comparison
\* of the session when that comparison detected a change, else None; a
\* session begins when _begin_monitoring captures its baseline and ends at
\* the next release.
RebaseOnCompare(p) ==
    expect' = IF has_changed(Detector, loc_baseline[p], current[p])
              THEN current[p] ELSE None

RebaseReset == expect' = None

RebaseRest == UNCHANGED <<cmp_after, expect, e2e, quiet, session_taps,
                          session_rebased, more, det>>

RebaseOther == UNCHANGED <<cmp_after, e2e, quiet, session_taps,
                           session_rebased, more, det>>

NextRebase ==
    \/ \E b \in Buttons, pr \in BOOLEAN : Click(b, pr) /\ RebaseRest
    \/ HandleClickOther /\ RebaseRest
    \/ BeginMonitoring /\ RebaseRest
    \/ \E s \in Screens : BeginSample(s) /\ RebaseReset /\ RebaseOther
    \/ BeginSampleFails /\ RebaseRest
    \/ BeginSetMonitoring /\ RebaseRest
    \/ BeginStartThread /\ RebaseRest
    \/ StopMonitoring /\ RebaseReset /\ RebaseOther
    \/ \E p \in Threads : CheckState(p) /\ RebaseRest
    \/ \E p \in Threads, s \in Screens : Sample(p, s) /\ RebaseRest
    \/ \E p \in Threads : SampleFails(p) /\ RebaseRest
    \/ \E p \in Threads : Compare(p) /\ RebaseOnCompare(p) /\ RebaseOther
    \/ \E p \in Threads : TapAcquire(p) /\ RebaseRest
    \/ \E p \in Threads : TapPress(p) /\ RebaseRest
    \/ \E p \in Threads : TapRelease(p) /\ RebaseRest
    \/ \E p \in Threads : Rebase(p) /\ RebaseRest
    \/ \E p \in Threads : Sleep(p) /\ RebaseRest

SpecRebase == Init /\ [][NextRebase]_vars

\* Sessions.  A session runs from the baseline capture of _begin_monitoring
\* to the next release.  e2e says the baseline captured at the press was
\* SampleA and every sample taken since by a polling thread was SampleB;
\* quiet says no sample taken since differed from the baseline of that
\* moment; session_taps counts the key presses (up to TapCap) and
\* session_rebased records a rebase write.
InSession == monitoring \/ lpc \in {"begin_flag", "begin_spawn"}

SessionOnStart(s) ==
    /\ e2e' = (s = SampleA)
    /\ quiet' = TRUE
    /\ session_taps' = 0
    /\ session_rebased' = FALSE

SessionOnStop ==
    /\ e2e' = FALSE
    /\ quiet' = FALSE
    /\ session_taps' = 0
    /\ session_rebased' = FALSE

SessionOnSample(s) ==
    /\ e2e' = (e2e /\ s = SampleB)
    /\ quiet' = (quiet /\ ~has_changed(Detector, baseline, s))
    /\ UNCHANGED <<session_taps, session_rebased>>

SessionOnPress ==
    /\ session_taps' = IF InSession THEN Min(session_taps + 1, TapCap)
                       ELSE session_taps
    /\ UNCHANGED <<e2e, quiet, session_rebased>>

SessionOnRebase ==
    /\ session_rebased' = (session_rebased \/ InSession)
    /\ UNCHANGED <<e2e, quiet, session_taps>>

SessionRest == UNCHANGED <<cmp_after, expect, e2e, quiet, session_taps,
                           session_rebased, more, det>>

SessionOther == UNCHANGED <<cmp_after, expect, more, det>>

NextSession ==
    \/ \E b \in Buttons, pr \in BOOLEAN : Click(b, pr) /\ SessionRest
    \/ HandleClickOther /\ SessionRest
    \/ BeginMonitoring /\ SessionRest
    \/ \E s \in Screens : BeginSample(s) /\ SessionOnStart(s) /\ SessionOther
    \/ BeginSampleFails /\ SessionRest
    \/ BeginSetMonitoring /\ SessionRest
    \/ BeginStartThread /\ SessionRest
    \/ StopMonitoring /\ SessionOnStop /\ SessionOther
    \/ \E p \in Threads : CheckState(p) /\ SessionRest
    \/ \E p \in Threads, s \in Screens :
          Sample(p, s) /\ SessionOnSample(s) /\ SessionOther
    \/ \E p \in Threads : SampleFails(p) /\ SessionRest
    \/ \E p \in Threads : Compare(p) /\ SessionRest
    \/ \E p \in Threads : TapAcquire(p) /\ SessionRest
    \/ \E p \in Threads : TapPress(p) /\ SessionOnPress /\ SessionOther
    \/ \E p \in Threads : TapRelease(p) /\ SessionRest
    \/ \E p \in Threads : Rebase(p) /\ SessionOnRebase /\ SessionOther
    \/ \E p \in Threads : Sleep(p) /\ SessionRest

SpecSession == Init /\ [][NextSession]_vars

\* What a thread saw at its state check.  saw_active[p] is the value of
\* _monitoring that thread p read under the lock at lines 185-186 of the
\* iteration it is in; the sleep that ends the iteration forgets it.
SeenOnCheck(p) == saw_active' = [saw_active EXCEPT ![p] = monitoring]

SeenOnSleep(p) == saw_active' = [saw_active EXCEPT ![p] = FALSE]

SeenRest == UNCHANGED <<hist, det>>

SeenOther == UNCHANGED <<cmp_after, expect, e2e, quiet, session_taps,
                         session_rebased, session_base, session_vals, det>>

NextSeen ==
    \/ \E b \in Buttons, pr \in BOOLEAN : Click(b, pr) /\ SeenRest
    \/ HandleClickOther /\ SeenRest
    \/ BeginMonitoring /\ SeenRest
    \/ \E s \in Screens : BeginSample(s) /\ SeenRest
    \/ BeginSampleFails /\ SeenRest
    \/ BeginSetMonitoring /\ SeenRest
    \/ BeginStartThread /\ SeenRest
    \/ StopMonitoring /\ SeenRest
    \/ \E p \in Threads : CheckState(p) /\ SeenOnCheck(p) /\ SeenOther
    \/ \E p \in Threads, s \in Screens : Sample(p, s) /\ SeenRest
    \/ \E p \in Threads : SampleFails(p) /\ SeenRest
    \/ \E p \in Threads : Compare(p) /\ SeenRest
    \/ \E p \in Threads : TapAcquire(p) /\ SeenRest
    \/ \E p \in Threads : TapPress(p) /\ SeenRest
    \/ \E p \in Threads : TapRelease(p) /\ SeenRest
    \/ \E p \in Threads : Rebase(p) /\ SeenRest
    \/ \E p \in Threads : Sleep(p) /\ SeenOnSleep(p) /\ SeenOther

SpecSeen == Init /\ [][NextSeen]_vars

\* Where a baseline comes from.  session_base is the sample the latest x2
\* press stored at line 173; session_vals are the samples polling threads
\* took at line 189 since that press arrived at _handle_click.
StartsSession(button, pressed) == button = X2 /\ pressed /\ ~monitoring

ProvOnClick(button, pressed) ==
    IF StartsSession(button, pressed)
    THEN session_base' = None /\ session_vals' = {}
    ELSE UNCHANGED <<session_base, session_vals>>

ProvOnStart(s) == session_base' = s /\ UNCHANGED session_vals

ProvOnSample(s) == session_vals' = session_vals \cup {s} /\ UNCHANGED session_base

ProvRest == UNCHANGED <<hist, det>>

ProvOther == UNCHANGED <<cmp_after, expect, e2e, quiet, session_taps,
                         session_rebased, saw_active, det>>

NextProv ==
    \/ \E b \in Buttons, pr \in BOOLEAN :
          Click(b, pr) /\ ProvOnClick(b, pr) /\ ProvOther
    \/ HandleClickOther /\ ProvRest
    \/ BeginMonitoring /\ ProvRest
    \/ \E s \in Screens : BeginSample(s) /\ ProvOnStart(s) /\ ProvOther
    \/ BeginSampleFails /\ ProvRest
    \/ BeginSetMonitoring /\ ProvRest
    \/ BeginStartThread /\ ProvRest
    \/ StopMonitoring /\ ProvRest
    \/ \E p \in Threads : CheckState(p) /\ ProvRest
    \/ \E p \in Threads, s \in Screens :
          Sample(p, s) /\ ProvOnSample(s) /\ ProvOther
    \/ \E p \in Threads : SampleFails(p) /\ ProvRest
    \/ \E p \in Threads : Compare(p) /\ ProvRest
    \/ \E p \in Threads : TapAcquire(p) /\ ProvRest
    \/ \E p \in Threads : TapPress(p) /\ ProvRest
    \/ \E p \in Threads : TapRelease(p) /\ ProvRest
    \/ \E p \in Threads : Rebase(p) /\ ProvRest
    \/ \E p \in Threads : Sleep(p) /\ ProvRest

SpecProv == Init /\ [][NextProv]_vars

\* ------------------------------------------------- the has_changed harness
\* has_changed applied once to inputs drawn from small sets, tolerances and
\* minimum counts outside the documented ranges (tolerance -1, minimum 0)
\* included.

DetPixels == {<<0, 0, 0>>, <<1, 0, 0>>, <<1, 1, 0>>, <<0, 2, 1>>}

DetTolerances == {-1, 0, 1, 2, 3}

DetMinimums == {0, 1, 2, 3}

RECURSIVE SeqsUpTo(_, _)
SeqsUpTo(S, n) ==
    IF n = 0 THEN {<< >>}
    ELSE LET shorter == SeqsUpTo(S, n - 1)
         IN shorter \cup {Append(q, x) : q \in shorter, x \in S}

DetInit ==
    /\ ProgInit /\ HistInit
    /\ det_self \in {ChangeDetector(t, k) : t \in DetTolerances, k \in DetMinimums}
    /\ det_base \in SeqsUpTo(DetPixels, MaxLen)
    /\ det_cur \in SeqsUpTo(DetPixels, MaxLen)
    /\ det_out = [done |-> FALSE, result |-> FALSE, scanned |-> 0]

\* result = detector.has_changed(baseline, current)
DetCall ==
    /\ ~det_out.done
    /\ det_out' = [done |-> TRUE,
                   result |-> has_changed(det_self, det_base, det_cur),
                   scanned |-> Scan(det_self, det_base, det_cur, 1, 0).scanned]
    /\ UNCHANGED <<det_self, det_base, det_cur, prog, hist>>

DetNext == DetCall

SpecDetector == DetInit /\ [][DetNext]_vars

\* ------------------------------------------------------------------ claims

\* The listener is inside the critical section of _begin_monitoring.
InBegin == lpc \in {"begin_sample", "begin_flag", "begin_spawn"}

\* C1: at most one polling task (a thread in _watch_for_changes that has not
\* exited) exists at any time, whatever presses and releases arrive.
C1_AtMostOnePollingTask == Cardinality(PollingTasks) <= 1

C3_AtomicStart ==
    [][ /\ InBegin => state_lock = "listener"
        /\ lpc \in {"begin_flag", "begin_spawn"}
           => /\ baseline # None
              /\ baseline' = baseline
              /\ \A p \in Threads :
                    pc[p] \in {"check", "rebase"} => pc'[p] = pc[p]
        /\ (lpc = "begin_spawn" /\ lpc' # lpc)
           => /\ lpc' = "idle" /\ state_lock' = "free"
              /\ monitoring' /\ baseline' # None
              /\ pc[monitor_thread'] = "unborn"
              /\ pc'[monitor_thread'] = "check"
        /\ \A p \in Threads :
              (pc[p] = "check" /\ pc'[p] # "check")
              => /\ ~InBegin
                 /\ monitoring => baseline # None
                 /\ pc'[p] = "sample"
                    => monitoring /\ loc_baseline'[p] = baseline
                 /\ pc'[p] = "exited" => ~(monitoring /\ baseline # None)
      ]_vars

\* C3 witness: the listener has stored the fresh baseline and not yet set
\* the flag, while a polling thread waits at its state check.
C3_Witness ==
    /\ lpc = "begin_flag" /\ ~monitoring /\ baseline # None
    /\ \E p \in Threads : pc[p] = "check"

\* C4: once a release has been processed while Active, a polling task that
\* was running at that moment makes at most one more has_changed call,
\* whatever events follow.
C4_AtMostOneMoreComparison == \A p \in Threads : cmp_after[p] <= 1

\* C5: after a comparison of the session detected a change with current
\* sample S, the next comparison of the session (by any polling task) uses S
\* as its baseline.
C5_NextComparisonUsesRebase ==
    [][ \A p \in Threads :
          (pc[p] = "compare" /\ pc'[p] # "compare" /\ expect # None)
          => loc_baseline[p] = expect ]_vars

\* C6: in a session whose baseline at the press was SampleA and whose every
\* later sample is SampleB (a change beyond the tolerance), at most one tap
\* is emitted during the session.  (The claim's further clause, that the
\* baseline equals SampleB afterwards, is not needed to decide it.)
C6_SustainedChangeOneTap == e2e => session_taps <= 1

\* C7: in a session in which no sample differed from the current baseline
\* beyond the tolerance, no tap is emitted and the baseline is not replaced.
C7_NoTapWithoutChange == quiet => (session_taps = 0 /\ ~session_rebased)

\* Manhattan distance of two RGB triples, as the spec defines delta_i.
ManhattanRGB(b, c) == Abs(b[1] - c[1]) + Abs(b[2] - c[2]) + Abs(b[3] - c[3])

\* The pixels of the harness inputs whose delta is strictly above the
\* tolerance.
ChangedPixels ==
    {i \in 1..Len(det_base) :
        ManhattanRGB(det_base[i], det_cur[i]) > det_self.tolerance}

\* C8: for equal-length A and B with exactly m pixels whose Manhattan delta
\* is strictly above the tolerance (a delta equal to it does not count) and
\* minimum_changed_pixels k >= 1, has_changed(A, B) is true exactly when
\* m >= k.
C8_ChangedIffEnoughPixels ==
    ( /\ det_out.done
      /\ Len(det_base) = Len(det_cur)
      /\ det_self.minimum_changed_pixels >= 1 )
    => (det_out.result
          <=> Cardinality(ChangedPixels) >= det_self.minimum_changed_pixels)

\* C8 witness: two pixels, one changed and one whose delta equals the
\* tolerance, minimum 2: has_changed returned false.
C8_Witness ==
    /\ det_out.done /\ ~det_out.result
    /\ Len(det_base) = 2 /\ Len(det_cur) = 2
    /\ det_self.minimum_changed_pixels = 2
    /\ Cardinality(ChangedPixels) = 1
    /\ \E i \in 1..2 :
          ManhattanRGB(det_base[i], det_cur[i]) = det_self.tolerance

\* C9: has_changed(A, A) is false for every A, every tolerance >= 0 and
\* every minimum_changed_pixels >= 1.
C9_IdenticalNeverChanged ==
    ( /\ det_out.done
      /\ det_base = det_cur
      /\ det_self.tolerance >= 0
      /\ det_self.minimum_changed_pixels >= 1 )
    => ~det_out.result

\* C9 witness: has_changed was applied to a two-pixel sample and itself with
\* tolerance 0 and minimum 1.
C9_Witness ==
    /\ det_out.done /\ ~det_out.result
    /\ det_base = det_cur /\ Len(det_base) = 2
    /\ det_self = ChangeDetector(0, 1)

\* C10: a capture failure inside the polling loop does not terminate the
\* polling task: no thread ever leaves _watch_for_changes by an exception of
\* sample().
C10_CaptureFailureNotFatal == \A p \in Threads : pc[p] # "crashed"

\* The polling threads inside the `with self._lock:` block of tap().
InTap == {p \in Threads : pc[p] \in {"tap_pre", "tap_hold"}}

\* C11: taps are serialized.  At most one caller is inside tap()'s lock at a
\* time; the key is down exactly while that caller is between its press and
\* its release; every press finds the key up and every release finds it
\* down, so presses and releases alternate.
C11_TapsSerialized ==
    [][ /\ Cardinality(InTap) <= 1
        /\ key_down <=> (\E p \in Threads : pc[p] = "tap_hold")
        /\ \A p \in Threads :
              (pc[p] = "tap_pre" /\ pc'[p] = "tap_hold")
              => (~key_down /\ key_down')
        /\ \A p \in Threads :
              (pc[p] = "tap_hold" /\ pc'[p] # "tap_hold")
              => (key_down /\ ~key_down')
      ]_vars

\* C11 witness: two concurrent callers of tap(): one holds the key down, the
\* other waits for the lock.
C11_Witness ==
    \E p, q \in Threads :
        p # q /\ pc[p] = "tap_hold" /\ pc[q] = "tap" /\ key_down

\* C12: a click of a button other than the trigger leaves the controller as
\* it was: the listener's step for it returns without touching _monitoring,
\* _baseline, _monitor_thread, either lock, the key or any polling thread.
C12_OtherButtonIgnored ==
    [][ (lpc = "handle" /\ ev.button # X2 /\ lpc' # lpc)
        => /\ lpc' = "idle"
           /\ UNCHANGED <<monitoring, baseline, monitor_thread, state_lock,
                          sender_lock, key_down, pc, loc_baseline, current>>
      ]_vars

\* C12 witness: a press of another button is being handled while Inactive
\* (a trigger press here would start monitoring).
C12_Witness ==
    /\ lpc = "handle" /\ ev = [button |-> "left", pressed |-> TRUE]
    /\ ~monitoring /\ state_lock = "free"

\* C13: the baseline exists only while monitoring is active: outside the
\* critical section of _begin_monitoring (the state lock is free), Inactive
\* implies that _baseline is None.
C13_BaselineOnlyWhileActive ==
    (state_lock = "free" /\ ~monitoring) => baseline = None

\* C15 as claimed: no thread, the listener included, is inside sample(), a
\* sleep or tap() while it holds the state lock.
C15_NoBlockingCallUnderLock == state_lock = "listener" => lpc # "begin_sample"

\* C15 as amended: no polling thread holds the state lock while it samples,
\* sleeps or taps (a polling thread never holds it across a step); the lock
\* is held only by the listener inside _begin_monitoring; and it is free
\* whenever the listener starts to handle an event, so the handling of a
\* release never waits for a capture, a sleep or a tap.
C15_PollersNeverBlockUnderLock ==
    /\ state_lock \in {"free", "listener"}
    /\ state_lock = "listener" => InBegin
    /\ lpc = "handle" => state_lock = "free"

\* C15 witness: a release is being handled while a polling thread is inside
\* sample(), another inside tap() or asleep, and the lock is free.
C15_Witness ==
    /\ lpc = "handle" /\ ev = [button |-> X2, pressed |-> FALSE]
    /\ monitoring /\ state_lock = "free"
    /\ \E p \in Threads : pc[p] = "sample"
    /\ \E p \in Threads : pc[p] \in {"sleep", "tap_pre", "tap_hold"}

\* C16: a capture failure in the initial sample of _begin_monitoring leaves
\* the controller as it was: the step that ends the call keeps Inactive,
\* leaves _baseline and _monitor_thread alone, creates no thread and releases
\* the lock; nothing but the successful capture writes the baseline inside
\* the critical section; and the listener never waits for events with the
\* lock held, so a later press or release is processed.
C16_FailedStartLeavesNoTrace ==
    [][ /\ (lpc = "begin_sample" /\ lpc' = "idle")
           => /\ ~monitoring /\ ~monitoring'
              /\ UNCHANGED <<baseline, monitor_thread>>
              /\ \A p \in Threads : pc[p] = "unborn" => pc'[p] = "unborn"
              /\ state_lock' = "free"
        /\ (lpc = "begin_sample" /\ baseline' # baseline) => lpc' = "begin_flag"
        /\ lpc \in {"idle", "handle"} => state_lock = "free"
      ]_vars

\* C16 witness: the listener is inside sample() of _begin_monitoring, lock
\* held, after an earlier session has run (a thread was started before).
C16_Witness ==
    /\ lpc = "begin_sample" /\ state_lock = "listener" /\ ~monitoring
    /\ monitor_thread >= 1

\* C20: Active implies a live poller: outside the critical section of
\* _begin_monitoring, if _monitoring is true then a polling task is running.
C20_ActiveImpliesLivePoller ==
    (monitoring /\ ~InBegin) => PollingTasks # {}

\* The pairs zip() yields for the harness inputs.
DetPairs == Min(Len(det_base), Len(det_cur))

\* Changed pixels among the first i pairs.
ChangedUpTo(i) ==
    Cardinality({j \in 1..i :
        ManhattanRGB(det_base[j], det_cur[j]) > det_self.tolerance})

\* The indices at which the running count has reached the minimum.
Reached ==
    {i \in 1..DetPairs : ChangedUpTo(i) >= det_self.minimum_changed_pixels}

\* C17: has_changed short-circuits.  For minimum_changed_pixels >= 1 it
\* returns true having evaluated exactly the pairs up to the first index at
\* which the running count of changed pixels reaches the minimum, and it
\* evaluates every pair only when it returns false or when that index is the
\* last one.
C17_ShortCircuit ==
    (det_out.done /\ det_self.minimum_changed_pixels >= 1)
    => IF Reached # {}
       THEN /\ det_out.result
            /\ det_out.scanned \in Reached
            /\ \A i \in Reached : det_out.scanned <= i
       ELSE /\ ~det_out.result
            /\ det_out.scanned = DetPairs

\* C17 witness: both pixels of a two-pixel pair changed, minimum 1:
\* has_changed returned true after the first pair.
C17_Witness ==
    /\ det_out.done /\ det_out.result /\ det_out.scanned = 1
    /\ Len(det_base) = 2 /\ Len(det_cur) = 2
    /\ det_self.minimum_changed_pixels = 1
    /\ Cardinality(ChangedPixels) = 2

\* C14: cooperative stop is live.  If from some point on the controller
\* stays Inactive and the listener never again enters _begin_monitoring (a
\* release was the last trigger event processed), then under weak fairness
\* of the polling threads' steps every polling task reaches its state check
\* and exits: eventually no polling task is running, for good.
C14_StopIsLive ==
    <>[](~monitoring /\ state_lock = "free") => <>[](PollingTasks = {})

\* C14 witness: after a session and its release, with no press since, the
\* thread of the session has left its loop and no polling task is running.
C14_Witness ==
    /\ ~monitoring /\ lpc = "idle" /\ state_lock = "free"
    /\ monitor_thread >= 1 /\ pc[monitor_thread] = "exited"
    /\ PollingTasks = {}

\* C18 as stated: a key press from NaturalKeySender.tap() is emitted only
\* while _monitoring is true; a polling task that compared just before the
\* release does not press the key after the release has been processed.
C18_PressOnlyWhileActive ==
    [][\A p \in Threads :
          (pc[p] = "tap_pre" /\ pc'[p] = "tap_hold") => monitoring]_vars

\* C18: a key press from tap() is emitted only by a polling task whose state
\* check at the start of the iteration read _monitoring true; the flag may
\* have been cleared since, so the tap of the iteration in flight can land
\* after the release.
C18_PressOnlyAfterActiveCheck ==
    [][\A p \in Threads :
          (pc[p] = "tap_pre" /\ pc'[p] = "tap_hold") => saw_active[p]]_vars

\* A thread holds the key down after a release was processed, its own state
\* check having read _monitoring true.
C18_Witness ==
    \E p \in Threads :
        /\ pc[p] = "tap_hold"
        /\ key_down
        /\ saw_active[p]
        /\ ~monitoring
        /\ baseline = None

\* C19: whenever _monitoring is true, _baseline is the sample the x2 press
\* of the current session captured or a sample a polling task took after
\* that press; a rebase of a sample taken before the latest release never
\* overwrites the baseline of a later session.
C19_NoCrossSessionBaseline ==
    (monitoring /\ state_lock = "free")
        => (baseline = session_base \/ baseline \in session_vals)

====
